---- MODULE Spec2Model ----
(***************************************************************************)
(* Fuzzy name matching of ciach/fantastic-waddle: day9.py (normalizer,     *)
(* banded Levenshtein with cutoff, threshold matcher) and day8.py          *)
(* (normalizer, plain two-row Levenshtein, threshold-or-similarity         *)
(* matcher).                                                               *)
(*                                                                         *)
(* A Python str is a sequence of one-character strings.  A Python list     *)
(* used as a DP row (index 0..len_a) is a function with domain 0..len_a,   *)
(* so that every index of the model is the index of the source.            *)
(* The running call is described by four variables: the program counter,   *)
(* the arguments of the call, its local variables, and the value returned. *)
(***************************************************************************)
EXTENDS Integers, Sequences, FiniteSets, TLC

VARIABLES pc, args, locals, ret

vars == <<pc, args, locals, ret>>

\* Python's None as the value of max_dist (day9.py 34): an Optional[int] whose
\* integers are the cutoffs >= 0 is an integer >= -1.
None == -1

\* The value of ret and locals while nothing has been returned or assigned yet.
NoValue == [unset |-> TRUE]

Min2(x, y) == IF x < y THEN x ELSE y

Max2(x, y) == IF x > y THEN x ELSE y

Abs(x) == IF x < 0 THEN 0 - x ELSE x

\* TRUE of every value v.  It fixes the order of evaluation: TLC computes
\* v where Evaluated(v) stands, as the program computes a row of a table before
\* it begins the next one.
Evaluated(v) == v = v

\* All strings over the alphabet S of length at most n.
StrUpTo(S, n) == UNION {[1..k -> S] : k \in 0..n}

(***************************************************************************)
(* Reference: the Levenshtein distance by its definition, the minimum      *)
(* number of single-character insertions, deletions and substitutions.     *)
(***************************************************************************)
RECURSIVE Lev(_, _)
Lev(x, y) ==
    IF x = <<>> THEN Len(y)
    ELSE IF y = <<>> THEN Len(x)
    ELSE Min2(Min2(Lev(Tail(x), y) + 1, Lev(x, Tail(y)) + 1),
              Lev(Tail(x), Tail(y)) + (IF Head(x) = Head(y) THEN 0 ELSE 1))

\* The same distance as the final cell of the full table of insertions,
\* deletions and substitutions, filled row by row: above is row j - 1, row is
\* row j up to column i - 1.
RECURSIVE LevFillRow(_, _, _, _, _)
LevFillRow(x, yj, above, row, i) ==
    IF i > Len(x) THEN row
    ELSE LET cell == Min2(Min2(above[i] + 1, row[i - 1] + 1),
                          above[i - 1] + (IF x[i] = yj THEN 0 ELSE 1))
         IN  LevFillRow(x, yj, above, [row EXCEPT ![i] = cell], i + 1)

RECURSIVE LevFromRow(_, _, _, _)
LevFromRow(x, y, j, above) ==
    IF j > Len(y) THEN above[Len(x)]
    ELSE LET row == LevFillRow(x, y[j], above, [i \in 0..Len(x) |-> j], 1)
         IN  CASE Evaluated(row) -> LevFromRow(x, y, j + 1, row)

LevTable(x, y) == LevFromRow(x, y, 1, [i \in 0..Len(x) |-> i])

(***************************************************************************)
(* day9._levenshtein_banded                                                *)
(***************************************************************************)

\* Sentinel with one change: the cutoff itself.
SentinelMut(max_dist) == max_dist

\* day9.py 55, 115: the value returned when the distance is known to exceed the
\* cutoff.
Sentinel(max_dist) == max_dist + 1

\* day9.py 58-61: the value of cells outside the band.
Big(len_a, len_b, max_dist) ==
    IF max_dist = None THEN len_a + len_b + 1 ELSE max_dist + 1

\* day9.py 65-68: the row j = 0.
InitPrev(len_a, max_dist, big) ==
    IF max_dist = None
    THEN [i \in 0..len_a |-> i]
    ELSE [i \in 0..len_a |-> IF i <= max_dist THEN i ELSE big]

\* BandLo with one change: a band one column narrower on the left.
BandLoMut(j, max_dist) ==
    IF max_dist = None THEN 1 ELSE Max2(1, j - max_dist + 1)

\* day9.py 79, 84: the first column of the band in row j.
BandLo(j, max_dist) ==
    IF max_dist = None THEN 1 ELSE Max2(1, j - max_dist)

\* day9.py 80, 85: the last column of the band in row j.
BandHi(j, len_a, max_dist) ==
    IF max_dist = None THEN len_a ELSE Min2(len_a, j + max_dist)

\* Cell with one change: a substitution read from prev[i] rather than prev[i - 1].
CellMut(prev, curr, i, ai, bj) ==
    LET cost == IF ai = bj THEN 0 ELSE 1
        deletion == prev[i] + 1
        insertion == curr[i - 1] + 1
        substitution == prev[i] + cost
        val == IF deletion < insertion THEN deletion ELSE insertion
    IN  IF substitution < val THEN substitution ELSE val

\* day9.py 98-104: the value of cell i from the row above (prev) and the cell to
\* its left (curr[i - 1]); ai, bj are the two characters compared.
Cell(prev, curr, i, ai, bj) ==
    LET cost == IF ai = bj THEN 0 ELSE 1
        deletion == prev[i] + 1
        insertion == curr[i - 1] + 1
        substitution == prev[i - 1] + cost
        val == IF deletion < insertion THEN deletion ELSE insertion
    IN  IF substitution < val THEN substitution ELSE val

\* day9.py 97-107: the inner loop over i in range(lo, hi + 1), from cell i on;
\* gives the row buffer and the row minimum after the loop.
RECURSIVE InnerLoop(_, _, _, _, _, _, _)
InnerLoop(a, bj, prev, curr, i, hi, row_min) ==
    IF i > hi THEN [curr |-> curr, row_min |-> row_min]
    ELSE LET val == Cell(prev, curr, i, a[i], bj)
         IN  InnerLoop(a, bj, prev, [curr EXCEPT ![i] = val], i + 1, hi,
                       IF val < row_min THEN val ELSE row_min)

\* day9.py 76-112: one pass of the outer loop: row j written into the buffer curr.
BandedRow(a, b, max_dist, big, j, prev, curr) ==
    LET len_a == Len(a)
        lo == BandLo(j, max_dist)
        hi == BandHi(j, len_a, max_dist)
        edged == IF max_dist = None
                 THEN [curr EXCEPT ![0] = j]
                 ELSE [i \in 0..len_a |->
                         IF i = 0 THEN (IF j <= max_dist THEN j ELSE big)
                         ELSE IF i < lo THEN big
                         ELSE curr[i]]
        inner == InnerLoop(a, b[j], prev, edged, lo, hi, edged[0])
        right == IF max_dist = None
                 THEN inner.curr
                 ELSE [i \in 0..len_a |-> IF i > hi THEN big ELSE inner.curr[i]]
    IN  [curr |-> right, row_min |-> inner.row_min]

\* day9.py 114: the per-row early exit.
RowExit(max_dist, row_min) == max_dist # None /\ row_min > max_dist

\* day9.py 75-119: the outer loop from row j on, with the two buffers swapped
\* after each row, and the final cell.
RECURSIVE BandedRows(_, _, _, _, _, _, _)
BandedRows(a, b, max_dist, big, j, prev, curr) ==
    IF j > Len(b) THEN prev[Len(a)]
    ELSE LET row == BandedRow(a, b, max_dist, big, j, prev, curr)
         IN  CASE Evaluated(row) ->
                 IF RowExit(max_dist, row.row_min) THEN Sentinel(max_dist)
                 ELSE BandedRows(a, b, max_dist, big, j + 1, row.curr, prev)

\* day9.py 47-119: the table, once neither shortcut on equal or empty operands
\* applies; x is the shorter operand.
BandedTable(x, y, max_dist) ==
    LET len_a == Len(x)
        len_b == Len(y)
        big == Big(len_a, len_b, max_dist)
    IN  IF max_dist # None /\ (len_b - len_a) > max_dist THEN Sentinel(max_dist)
        ELSE BandedRows(x, y, max_dist, big, 1,
                        InitPrev(len_a, max_dist, big),
                        [i \in 0..len_a |-> big])

\* day9.py 34-119.
_levenshtein_banded(a, b, max_dist) ==
    IF a = b THEN 0
    ELSE IF a = <<>> THEN Len(b)
    ELSE IF b = <<>> THEN Len(a)
    ELSE IF Len(a) > Len(b) THEN BandedTable(b, a, max_dist)
    ELSE BandedTable(a, b, max_dist)

(***************************************************************************)
(* day8._levenshtein                                                       *)
(***************************************************************************)

\* day8.py 39-45: the value of cell i.
Cell8(prev, curr, i, ai, cb) ==
    LET cost == IF ai = cb THEN 0 ELSE 1
        deletion == prev[i] + 1
        insertion == curr[i - 1] + 1
        substitution == prev[i - 1] + cost
        val == IF deletion < insertion THEN deletion ELSE insertion
    IN  IF substitution < val THEN substitution ELSE val

\* day8.py 38-46: the inner loop over i in range(1, la + 1), from cell i on.
RECURSIVE Row8(_, _, _, _, _)
Row8(a, cb, prev, curr, i) ==
    IF i > Len(a) THEN curr
    ELSE Row8(a, cb, prev, [curr EXCEPT ![i] = Cell8(prev, curr, i, a[i], cb)], i + 1)

\* day8.py 36-48: the loop over the characters of b from the j-th on.
RECURSIVE Rows8(_, _, _, _, _)
Rows8(a, b, j, prev, curr) ==
    IF j > Len(b) THEN prev[Len(a)]
    ELSE LET row == Row8(a, b[j], prev, [curr EXCEPT ![0] = prev[0] + 1], 1)
         IN  CASE Evaluated(row) -> Rows8(a, b, j + 1, row, prev)

\* day8.py 30-48: a is the shorter operand.
Table8(x, y) ==
    Rows8(x, y, 1, [i \in 0..Len(x) |-> i], [i \in 0..Len(x) |-> 0])

\* day8.py 23-48.
_levenshtein(a, b) ==
    IF a = b THEN 0
    ELSE IF a = <<>> THEN Len(b)
    ELSE IF b = <<>> THEN Len(a)
    ELSE IF Len(a) > Len(b) THEN Table8(b, a)
    ELSE Table8(a, b)

(***************************************************************************)
(* _normalize (day9.py 21-31, day8.py 10-20: the same text in both files)   *)
(*                                                                         *)
(* A character is named by itself when it is printable ASCII and by its    *)
(* Unicode name otherwise: E_ACUTE is U+00E9, COMBINING_ACUTE is U+0301,   *)
(* TAB is U+0009.                                                          *)
(***************************************************************************)

\* The characters of the model's raw text.
RawChars == {"a", "b", "1", "A", "E_ACUTE", "COMBINING_ACUTE", " ", "TAB", "-"}

\* unicodedata.normalize("NFKD", ch) of one character (day9.py 23).
Nfkd(ch) == IF ch = "E_ACUTE" THEN <<"e", "COMBINING_ACUTE">> ELSE <<ch>>

\* unicodedata.combining(ch) is non-zero (day9.py 24).
Combining(ch) == ch = "COMBINING_ACUTE"

\* str.lower() of one character (day9.py 28).
Lower(ch) == IF ch = "A" THEN "a" ELSE ch

\* The characters the class [a-z0-9] matches (day9.py 17).
LowerAlnum == {"a", "b", "e", "1"}

\* The characters \s matches (day9.py 18).
Whitespace == {" ", "TAB"}

\* Every character a string of the model can hold.
AllChars == RawChars \cup LowerAlnum

\* day9.py 21-24.
RECURSIVE _strip_accents(_)
_strip_accents(s) ==
    IF s = <<>> THEN <<>>
    ELSE SelectSeq(Nfkd(Head(s)), LAMBDA ch : ~Combining(ch)) \o _strip_accents(Tail(s))

\* str.lower() (day9.py 28).
LowerStr(s) == [i \in 1..Len(s) |-> Lower(s[i])]

\* pattern.sub(" ", s) for a pattern class+ : every maximal run of characters of
\* the class becomes one space (day9.py 29, 30).
RECURSIVE SubRuns(_, _)
SubRuns(class, s) ==
    IF s = <<>> THEN <<>>
    ELSE IF Head(s) \notin class THEN <<Head(s)>> \o SubRuns(class, Tail(s))
    ELSE IF Len(s) > 1 /\ s[2] \in class THEN SubRuns(class, Tail(s))
    ELSE <<" ">> \o SubRuns(class, Tail(s))

\* str.lstrip() (day9.py 30).
RECURSIVE LStrip(_)
LStrip(s) ==
    IF s # <<>> /\ Head(s) \in Whitespace THEN LStrip(Tail(s)) ELSE s

\* str.rstrip() (day9.py 30).
RECURSIVE RStrip(_)
RStrip(s) ==
    IF s # <<>> /\ s[Len(s)] \in Whitespace THEN RStrip(SubSeq(s, 1, Len(s) - 1)) ELSE s

\* Strip with one change: only leading whitespace removed.
StripMut(s) == LStrip(s)

\* str.strip() (day9.py 30).
Strip(s) == RStrip(LStrip(s))

\* day9.py 27-31 (day8.py 15-20).
_normalize(s) ==
    LET folded == LowerStr(_strip_accents(s))
        spaced == SubRuns(AllChars \ LowerAlnum, folded)
    IN  Strip(SubRuns(Whitespace, spaced))

(***************************************************************************)
(* day9.solution                                                           *)
(***************************************************************************)

\* Python's None as the value of best_name (day9.py 161): an Optional[str]
\* that is no str, here a sequence whose one element is no character.
NoneName == <<"None">>

\* The value returned by day9.solution: None (day9.py 139, 178), or the tuple
\* (name, dist) (day9.py 159, 179).
NoMatch == [matched |-> FALSE]

Match(name, dist) == [matched |-> TRUE, name |-> name, dist |-> dist]

\* day9.py 141-142.
Clamp(threshold) == IF threshold < 0 THEN 0 ELSE threshold

\* day9.py 148-152: the list of (orig, norm, len(norm)), in the order of known_names.
KnownNorms(known_names) ==
    [k \in 1..Len(known_names) |->
        [orig |-> known_names[k],
         norm |-> _normalize(known_names[k]),
         ln |-> Len(_normalize(known_names[k]))]]

\* day9.py 149-155: the dict from each normalized name to the first original
\* that has it.
NormToFirstOriginal(known_norms) ==
    [n \in {known_norms[k].norm : k \in 1..Len(known_norms)} |->
        known_norms[CHOOSE k \in 1..Len(known_norms) :
                        /\ known_norms[k].norm = n
                        /\ \A h \in 1..(k - 1) : known_norms[h].norm # n].orig]

\* Pruned with one change: a candidate pruned at a length gap equal to the threshold.
PrunedMut(ln, la, threshold) == Abs(ln - la) >= threshold

\* day9.py 166: the length-based pruning of one candidate.
Pruned(ln, la, threshold) == Abs(ln - la) > threshold

\* Cutoff with one change: the cutoff not tightened below best_dist.
CutoffMut(best_dist) == best_dist

\* day9.py 169: the cutoff handed to _levenshtein_banded.
Cutoff(best_dist) == best_dist - 1

\* Improves with one change: a tie replacing the best candidate.
ImprovesMut(dist, best_dist) == dist <= best_dist

\* day9.py 171: whether the candidate replaces the best one.
Improves(dist, best_dist) == dist < best_dist

\* day9.py 138-162: from the call to the first pass of the loop, or to the
\* return on an empty list or on an exact normalized match.
Solution ==
    /\ pc = "solution"
    /\ IF args.known_names = <<>>
       THEN /\ ret' = NoMatch
            /\ pc' = "done"
            /\ UNCHANGED locals
       ELSE LET threshold == Clamp(args.threshold)
                s0 == _normalize(args.inputName)
                known_norms == KnownNorms(args.known_names)
                norm_to_first_original == NormToFirstOriginal(known_norms)
            IN  IF s0 \in DOMAIN norm_to_first_original
                THEN /\ ret' = Match(norm_to_first_original[s0], 0)
                     /\ pc' = "done"
                     /\ UNCHANGED locals
                ELSE /\ locals' = [threshold |-> threshold, s0 |-> s0, la |-> Len(s0),
                                   known_norms |-> known_norms,
                                   best_name |-> NoneName,
                                   best_dist |-> threshold + 1,
                                   idx |-> 1]
                     /\ pc' = "scan"
                     /\ UNCHANGED ret
    /\ UNCHANGED args

\* day9.py 165-175: one pass of the loop over known_norms, on its idx-th entry;
\* the loop ends after the last entry or on the break.
Scan ==
    /\ pc = "scan"
    /\ LET entry == locals.known_norms[locals.idx]
           last == locals.idx = Len(locals.known_norms)
       IN  IF Pruned(entry.ln, locals.la, locals.threshold)
           THEN /\ locals' = [locals EXCEPT !.idx = locals.idx + 1]
                /\ pc' = IF last THEN "decide" ELSE "scan"
           ELSE LET cutoff == Cutoff(locals.best_dist)
                    dist == _levenshtein_banded(locals.s0, entry.norm, cutoff)
                    better == Improves(dist, locals.best_dist)
                IN  /\ locals' = [threshold |-> locals.threshold, s0 |-> locals.s0,
                                  la |-> locals.la,
                                  known_norms |-> locals.known_norms,
                                  best_name |-> IF better THEN entry.orig
                                                ELSE locals.best_name,
                                  best_dist |-> IF better THEN dist
                                                ELSE locals.best_dist,
                                  idx |-> locals.idx + 1,
                                  cutoff |-> cutoff,
                                  dist |-> dist]
                    /\ pc' = IF last \/ (better /\ dist = 0) THEN "decide" ELSE "scan"
    /\ UNCHANGED <<args, ret>>

\* day9.py 177-179.
Decide ==
    /\ pc = "decide"
    /\ ret' = IF locals.best_name = NoneName \/ locals.best_dist > locals.threshold
              THEN NoMatch
              ELSE Match(locals.best_name, locals.best_dist)
    /\ pc' = "done"
    /\ UNCHANGED <<args, locals>>

(***************************************************************************)
(* day8.solution, called with a list of names                              *)
(***************************************************************************)

\* The str "None" (day8.py 83, 105).
NoneText == <<"N", "o", "n", "e">>

\* The value returned by day8.solution: the str "None", or a _SpaceSafeString
\* around the name (day8.py 103), whose text is the name (day8.py 59-74).
Plain(text) == [wrapped |-> FALSE, text |-> text]

_SpaceSafeString(text) == [wrapped |-> TRUE, text |-> text]

\* day8.py 92: whether names[i] replaces the best one.
Improves8(d, best_dist) == d < best_dist

\* Accept with one change: the absolute test is best_dist < 3.
AcceptMut(best_dist, tgt_len, best_norm_len) ==
    LET best_len == IF best_norm_len = 0 THEN 1 ELSE best_norm_len
        longest == Max2(tgt_len, best_len)
    IN  best_dist < 3 \/ 100 * (longest - best_dist) >= 60 * longest

\* day8.py 99-101: the gate.  similarity = 1.0 - best_dist / max(len(tgt), best_len)
\* is compared with 0.60 in exact arithmetic: for every best_dist <= max <= 2000
\* the double-precision value is >= 0.60 exactly when 100 * (max - best_dist)
\* >= 60 * max.
Accept(best_dist, tgt_len, best_norm_len) ==
    LET best_len == IF best_norm_len = 0 THEN 1 ELSE best_norm_len
        longest == Max2(tgt_len, best_len)
    IN  best_dist <= 3 \/ 100 * (longest - best_dist) >= 60 * longest

\* day8.py 82-89: from the call to the loop, or to the return on an empty list.
\* names[k] of the source is names[k + 1] here.
Solution8 ==
    /\ pc = "solution8"
    /\ IF args.names = <<>>
       THEN /\ ret' = Plain(NoneText)
            /\ pc' = "done"
            /\ UNCHANGED locals
       ELSE LET tgt == _normalize(args.input_name)
            IN  /\ locals' = [tgt |-> tgt, best_idx |-> 0,
                              best_dist |-> _levenshtein(tgt, _normalize(args.names[1])),
                              i |-> 1]
                /\ pc' = IF Len(args.names) = 1 THEN "decide8" ELSE "scan8"
                /\ UNCHANGED ret
    /\ UNCHANGED args

\* day8.py 90-96: one pass of the loop over range(1, len(names)).
Scan8 ==
    /\ pc = "scan8"
    /\ LET d == _levenshtein(locals.tgt, _normalize(args.names[locals.i + 1]))
           better == Improves8(d, locals.best_dist)
           last == locals.i = Len(args.names) - 1
       IN  /\ locals' = [tgt |-> locals.tgt,
                         best_idx |-> IF better THEN locals.i ELSE locals.best_idx,
                         best_dist |-> IF better THEN d ELSE locals.best_dist,
                         i |-> locals.i + 1]
           /\ pc' = IF last \/ (better /\ d = 0) THEN "decide8" ELSE "scan8"
    /\ UNCHANGED <<args, ret>>

\* day8.py 98-105.
Decide8 ==
    /\ pc = "decide8"
    /\ ret' = IF Accept(locals.best_dist, Len(locals.tgt),
                        Len(_normalize(args.names[locals.best_idx + 1])))
              THEN _SpaceSafeString(args.names[locals.best_idx + 1])
              ELSE Plain(NoneText)
    /\ pc' = "done"
    /\ UNCHANGED <<args, locals>>

(***************************************************************************)
(* The distance functions applied to every pair of short strings.          *)
(***************************************************************************)
LevChars == {"a", "b"}

MaxLen == 4

MaxCutoff == 3

Cutoffs == {None} \cup (0..MaxCutoff)

InitLev ==
    /\ pc = "distance"
    /\ args \in [a : StrUpTo(LevChars, MaxLen), b : StrUpTo(LevChars, MaxLen),
                 max_dist : Cutoffs]
    /\ locals = NoValue
    /\ ret = NoValue

\* One call of day9._levenshtein_banded(a, b, max_dist).
CallBanded ==
    /\ pc = "distance"
    /\ ret' = [banded |-> _levenshtein_banded(args.a, args.b, args.max_dist)]
    /\ pc' = "distance8"
    /\ UNCHANGED <<args, locals>>

\* One call of day8._levenshtein(a, b) on the same operands.
CallLevenshtein ==
    /\ pc = "distance8"
    /\ ret' = [banded |-> ret.banded, plain |-> _levenshtein(args.a, args.b)]
    /\ pc' = "done"
    /\ UNCHANGED <<args, locals>>

NextLev == CallBanded \/ CallLevenshtein

SpecLev == InitLev /\ [][NextLev]_vars

\* The same calls on longer operands.
WideLen == 5

InitLevWide ==
    /\ pc = "distance"
    /\ args \in [a : StrUpTo(LevChars, WideLen), b : StrUpTo(LevChars, WideLen),
                 max_dist : Cutoffs]
    /\ locals = NoValue
    /\ ret = NoValue

SpecLevWide == InitLevWide /\ [][NextLev]_vars

\* The exact distance of the two operands of the call.
Exact == Lev(args.a, args.b)

\* C2: with max_dist None, _levenshtein_banded(a, b, None) is the exact
\* Levenshtein distance of a and b, for every pair of strings (empty ones and
\* operands that are swapped included), and day8._levenshtein(a, b) is the same
\* value.
C2_UnboundedIsExact ==
    /\ pc # "distance" /\ args.max_dist = None => ret.banded = Exact
    /\ pc = "done" => ret.plain = Exact

\* A call without cutoff whose operands are swapped and whose table has at least
\* two rows and two columns.
C2_Witness ==
    /\ pc = "done"
    /\ args.max_dist = None
    /\ Len(args.a) > Len(args.b)
    /\ Len(args.b) >= 2
    /\ ret.banded >= 2
    /\ ret.plain = ret.banded

\* C3: for every cutoff k >= 0 with exact distance <= k,
\* _levenshtein_banded(a, b, k) returns what _levenshtein_banded(a, b, None)
\* returns.
C3_CutoffAgreesWithinCutoff ==
    pc # "distance" /\ args.max_dist # None /\ Exact <= args.max_dist
        => ret.banded = _levenshtein_banded(args.a, args.b, None)

\* A call whose band leaves cells of the table out (3 columns, cutoff 1) and
\* whose distance is within the cutoff.
C3_Witness ==
    /\ pc = "done"
    /\ args.max_dist = 1
    /\ Len(args.a) >= 3
    /\ Len(args.b) > Len(args.a)
    /\ ret.banded = 1

\* C4: for every cutoff k >= 0, when the exact distance exceeds k,
\* _levenshtein_banded(a, b, k) returns exactly k + 1.
C4_SentinelIsExactlyCutoffPlusOne ==
    pc # "distance" /\ args.max_dist # None /\ Exact > args.max_dist
        => ret.banded = args.max_dist + 1

\* C6: _levenshtein_banded(a, b, max_dist) = _levenshtein_banded(b, a, max_dist)
\* for every max_dist, it is 0 on equal operands, and 0 only on equal operands.
C6_SymmetricAndZeroIffEqual ==
    pc # "distance"
        => /\ ret.banded = _levenshtein_banded(args.b, args.a, args.max_dist)
           /\ (ret.banded = 0) <=> (args.a = args.b)

\* C10: for every cutoff k >= 0, when the exact distance exceeds k,
\* _levenshtein_banded(a, b, k) returns a value greater than k.
C10_OverCutoffReturnsMoreThanCutoff ==
    pc # "distance" /\ args.max_dist # None /\ Exact > args.max_dist
        => ret.banded > args.max_dist

\* A call over the cutoff that neither shortcut decides (operands of one length,
\* not empty) and that returns more than k + 1 from the final cell.
C10_Witness ==
    /\ pc = "done"
    /\ args.max_dist >= 1
    /\ Len(args.a) = Len(args.b)
    /\ Exact > args.max_dist
    /\ ret.banded > args.max_dist + 1

(***************************************************************************)
(* _normalize applied to every short raw string, and again to its result.  *)
(***************************************************************************)
MaxRawLen == 3

InitNorm ==
    /\ pc = "normalize"
    /\ args \in [s : StrUpTo(RawChars, MaxRawLen)]
    /\ locals = NoValue
    /\ ret = NoValue

\* _normalize(s).
CallNormalize ==
    /\ pc = "normalize"
    /\ ret' = [once |-> _normalize(args.s)]
    /\ pc' = "renormalize"
    /\ UNCHANGED <<args, locals>>

\* _normalize(_normalize(s)).
CallNormalizeAgain ==
    /\ pc = "renormalize"
    /\ ret' = [once |-> ret.once, twice |-> _normalize(ret.once)]
    /\ pc' = "done"
    /\ UNCHANGED <<args, locals>>

NextNorm == CallNormalize \/ CallNormalizeAgain

SpecNorm == InitNorm /\ [][NextNorm]_vars

\* The output form of C7: only characters a-z and 0-9 and single interior spaces,
\* no leading or trailing space.
WellFormed(n) ==
    /\ \A i \in 1..Len(n) : n[i] \in LowerAlnum \cup {" "}
    /\ n # <<>> => n[1] # " " /\ n[Len(n)] # " "
    /\ \A i \in 1..(Len(n) - 1) : ~(n[i] = " " /\ n[i + 1] = " ")

\* C7: _normalize(_normalize(s)) = _normalize(s) for every string s, and
\* _normalize(s) holds only characters a-z, 0-9 and single interior spaces.
C7_NormalizeIdempotent ==
    /\ pc # "normalize" => WellFormed(ret.once)
    /\ pc = "done" => ret.twice = ret.once

\* An accented letter, punctuation and an upper-case letter, normalized twice.
C7_Witness ==
    /\ pc = "done"
    /\ args.s = <<"E_ACUTE", "-", "A">>
    /\ ret.once = <<"e", " ", "a">>
    /\ ret.twice = ret.once

(***************************************************************************)
(* The two matchers called on a query, a list of names and a threshold.    *)
(***************************************************************************)
Rep(ch, n) == [i \in 1..n |-> ch]

\* The queries and names day9.solution is called with.
Queries9 ==
    { <<>>, <<"a", "b">>, <<"A", "-", "b">>, <<"a", "a", "b", "b">>, <<"a", "b", "a">> }

Names9 ==
    { <<"a", "b">>, <<"A", "b">>, <<"a", "-", "b">>, <<"-">>,
      <<"b", "b", "a", "a">>, <<"a", "b", "b">> }

\* The queries and names day8.solution is called with.
Queries8 == { <<>>, <<"a">>, Rep("a", 10), Rep("A", 10) \o <<"-", "b">> }

Names8 ==
    { <<"-">>, <<"b", "b", "b">>, <<"b", "-", "b">>, <<"b", "b", "b", "b">>, Rep("A", 10),
      Rep("a", 6) \o Rep("b", 4), Rep("a", 5) \o Rep("b", 5) }

MaxNames == 3

MaxThreshold == 3

\* All lists of at most n elements of S.
ListsUpTo(S, n) == UNION {[1..k -> S] : k \in 0..n}

InitDay9 ==
    /\ pc = "solution"
    /\ args \in [inputName : Queries9, known_names : ListsUpTo(Names9, MaxNames),
                 threshold : (-1)..MaxThreshold]
    /\ locals = NoValue
    /\ ret = NoValue

InitDay8 ==
    /\ pc = "solution8"
    /\ args \in [input_name : Queries8, names : ListsUpTo(Names8, MaxNames)]
    /\ locals = NoValue
    /\ ret = NoValue

InitMatch == InitDay9 \/ InitDay8

NextMatch == Solution \/ Scan \/ Decide \/ Solution8 \/ Scan8 \/ Decide8

SpecMatch == InitMatch /\ [][NextMatch]_vars

\* Whether the call is one of day9.solution, resp. of day8.solution.
IsDay9 == "known_names" \in DOMAIN args

IsDay8 == "names" \in DOMAIN args

\* The smallest element of a non-empty set of integers.
Least(S) == CHOOSE m \in S : \A n \in S : m <= n

\* The first index of the non-empty list seq at which f(seq[k]) is least.
FirstLeast(seq, f(_)) ==
    LET m == Least({f(seq[k]) : k \in 1..Len(seq)})
    IN  Least({k \in 1..Len(seq) : f(seq[k]) = m})

\* The reference matcher of C1: the first candidate at the least exact distance,
\* if that distance is at most max(threshold, 0).
RefSolution(inputName, known_names, threshold) ==
    LET t == Max2(threshold, 0)
        D(c) == Lev(_normalize(inputName), _normalize(c))
        k == FirstLeast(known_names, D)
    IN  IF known_names = <<>> THEN NoMatch
        ELSE IF D(known_names[k]) > t THEN NoMatch
        ELSE Match(known_names[k], D(known_names[k]))

\* C1: day9.solution(inputName, known_names, threshold) returns what the
\* reference matcher returns: None on an empty list or when the least exact
\* distance exceeds max(threshold, 0), and otherwise the original text of the
\* first candidate at the least distance, with that distance.
C1_SolutionIsReferenceMatcher ==
    pc = "done" /\ IsDay9
        => ret = RefSolution(args.inputName, args.known_names, args.threshold)

\* A call whose scan improves three times: each of the three candidates is
\* within the threshold and nearer than the one before it, and the last one, at
\* a positive distance found under a cutoff tightened twice, is returned.
C1_Witness ==
    /\ pc = "done"
    /\ IsDay9
    /\ Len(args.known_names) = 3
    /\ ret.matched
    /\ ret.name = args.known_names[3]
    /\ ret.dist >= 1
    /\ ret.dist < Lev(locals.s0, _normalize(args.known_names[2]))
    /\ Lev(locals.s0, _normalize(args.known_names[2]))
          < Lev(locals.s0, _normalize(args.known_names[1]))
    /\ Lev(locals.s0, _normalize(args.known_names[1])) <= locals.threshold

\* C9, the state part: during the scan and at its end best_dist is at most
\* threshold + 1 (threshold clamped to >= 0), and is threshold + 1 before the
\* first pass; best_name is None exactly when best_dist is threshold + 1;
\* when best_name is not None, best_dist is its exact distance to the query and
\* is at most threshold; the cutoff handed to _levenshtein_banded is in
\* 0..threshold.
C9_ScanState ==
    pc \in {"scan", "decide"}
        => /\ locals.threshold = Max2(args.threshold, 0)
           /\ locals.idx = 1 => locals.best_dist = locals.threshold + 1
           /\ locals.best_dist <= locals.threshold + 1
           /\ (locals.best_name = NoneName) <=> (locals.best_dist = locals.threshold + 1)
           /\ locals.best_name # NoneName
                => /\ locals.best_dist = Lev(locals.s0, _normalize(locals.best_name))
                   /\ locals.best_dist <= locals.threshold
           /\ "cutoff" \in DOMAIN locals => locals.cutoff \in 0..locals.threshold

\* C9, the step part: no pass of the scan increases best_dist.
C9_ScanStep == pc = "scan" => locals'.best_dist <= locals.best_dist

\* C9: during the scan of day9.solution the best-match state only improves.
C9_BestOnlyImproves == []C9_ScanState /\ [][C9_ScanStep]_vars

\* The end of a scan whose last pass ran under a cutoff at least two below the
\* threshold and found a nearer candidate.
C9_Witness ==
    /\ pc = "decide"
    /\ locals.idx = 4
    /\ "cutoff" \in DOMAIN locals
    /\ locals.cutoff + 2 <= locals.threshold
    /\ locals.best_name = args.known_names[3]
    /\ locals.best_dist >= 1
    /\ locals.dist <= locals.cutoff

\* The normalized length of a raw name.
NormLen(c) == Len(_normalize(c))

\* C5 as stated: when the query normalizes to the empty string, a match is
\* returned only for a candidate that normalizes to the empty string.
C5_EmptyQueryMatchesOnlyEmpty ==
    /\ pc = "done" /\ IsDay9 /\ _normalize(args.inputName) = <<>> /\ ret.matched
         => _normalize(ret.name) = <<>> /\ ret.dist = 0
    /\ pc = "done" /\ IsDay8 /\ _normalize(args.input_name) = <<>> /\ ret.wrapped
         => _normalize(ret.text) = <<>>

\* C5 as amended: when the query normalizes to the empty string, the matcher
\* returns the first candidate of least normalized length, at a distance equal
\* to that length, when that length is at most the threshold (max(threshold, 0)
\* in day9.solution, 3 in day8.solution), and "no match" otherwise.
C5_EmptyQueryMatchesShortest ==
    /\ pc = "done" /\ IsDay9 /\ _normalize(args.inputName) = <<>>
         => LET k == FirstLeast(args.known_names, NormLen)
            IN  ret = IF args.known_names = <<>> THEN NoMatch
                      ELSE IF NormLen(args.known_names[k]) > Max2(args.threshold, 0)
                      THEN NoMatch
                      ELSE Match(args.known_names[k], NormLen(args.known_names[k]))
    /\ pc = "done" /\ IsDay8 /\ _normalize(args.input_name) = <<>>
         => LET k == FirstLeast(args.names, NormLen)
            IN  ret = IF args.names = <<>> THEN Plain(NoneText)
                      ELSE IF NormLen(args.names[k]) > 3 THEN Plain(NoneText)
                      ELSE _SpaceSafeString(args.names[k])

\* An empty query matched, by the scan, to a candidate that does not normalize to
\* the empty string.
C5_Witness ==
    /\ pc = "done"
    /\ IsDay9
    /\ _normalize(args.inputName) = <<>>
    /\ ret.matched
    /\ ret.dist >= 1
    /\ ret.dist = locals.threshold

\* The reference matcher of C8: the first candidate at the least exact distance
\* d, if d <= 3 or 5 * d <= 2 * max(len(query_norm), len(candidate_norm)).
RefSolution8(names, input_name) ==
    LET q == _normalize(input_name)
        D(c) == LevTable(q, _normalize(c))
        k == FirstLeast(names, D)
        d == D(names[k])
    IN  IF names = <<>> THEN Plain(NoneText)
        ELSE IF d <= 3 \/ 5 * d <= 2 * Max2(Len(q), NormLen(names[k]))
        THEN _SpaceSafeString(names[k])
        ELSE Plain(NoneText)

\* C8: day8.solution(names, input_name) returns the original text of the first
\* candidate at the least exact distance d when d <= 3 or
\* 5 * d <= 2 * max(len(query_norm), len(candidate_norm)), and the string "None"
\* otherwise and on an empty list.
C8_Solution8IsReferenceMatcher ==
    pc = "done" /\ IsDay8 => ret = RefSolution8(args.names, args.input_name)

\* A call that accepts by the similarity ratio alone (distance above 3) the
\* second candidate, the first being farther.
C8_Witness ==
    /\ pc = "done"
    /\ IsDay8
    /\ Len(args.names) >= 2
    /\ ret.wrapped
    /\ ret.text = args.names[2]
    /\ locals.best_dist > 3
    /\ locals.best_idx = 1

====
